---- MODULE Spec2Model ----
(***************************************************************************)
(* Fall detection and emergency escalation of the therapy robot            *)
(* (features/safety.py, driven by main.py).                                *)
(*                                                                         *)
(* Sensor values are normalised floats in the source; here they are        *)
(* integers in thousandths (0.148 is 148).  Every thread of the source is  *)
(* a process with a program counter named after the source line it is      *)
(* about to execute; the source takes no lock, so the steps interleave.    *)
(***************************************************************************)
EXTENDS Integers, Sequences, FiniteSets, TLC

(* ---------------- bounds of the model ---------------- *)
MaxEpisodes == 2      \* fall declarations (hence deadline timers) per behaviour
MaxLive == 2          \* timer / re-notifier threads alive at the same time
MaxCount == 3         \* cap on detection_count: no further hit tick is read at the cap

(* ---------------- program constants (thousandths) ---------------- *)
free_fall_threshold == 100
impact_threshold == 750
z_change_threshold == 450
change_ceiling == 500
detection_threshold == 3
z_history_size == 5
z_jitter_low == 150
z_jitter_high == 650
jitter_margin == 100
pattern_min_outside == 3

None == -1            \* previous_z before the first sample

(* Sensor readings offered to the classifier. *)
Samples == {50, 148, 150, 400, 649, 650, 850}
(* Sensor readings offered while the escalation threads are explored. *)
EscSamples == {850}

(* readings of both signs, for the history of absolute values *)
SignedSamples == {-850, -400, 50, 400, 850}

(* ---------------- constants of safety/fall_detector.py ---------------- *)
ADC_MAX_VALUE == 4095
FALL_THRESHOLD == 2000
FALL_DURATION_MS == 100
STABLE_DURATION_MS == 500
SAMPLING_INTERVAL_MS == 10

(* the clock of the fall detector stops at this many ms *)
MaxNow == 1300

(* ms between two samples: the sleep of line 203, or longer when reads     *)
(* fail or a callback takes its time                                       *)
TimeSteps == {SAMPLING_INTERVAL_MS, 100, 500}

(* last_accel before the first sample (fall_detector.py:56) *)
NoAccel == <<0, 0, 0>>
(* raw ADC triples: at rest near the centre, two axes at the upper rail,   *)
(* the x axis at the lower rail                                            *)
AccRest == <<2048, 2048, 2048>>
AccHit == <<4095, 4095, 2048>>
AccZeroX == <<0, 2048, 2048>>
AccelSamples == {AccRest, AccHit, AccZeroX}
(* a triple with a failed read (_read_adc returns -1, lines 80-81, 92-94) *)
AccReadError == <<-1, 2048, 2048>>

(* Resting values of the sensor (safety.py:38-39, 67-68). *)
JitterLowBand == 148..150
JitterHighBand == 649..650
InJitterBand(z) == z \in JitterLowBand \/ z \in JitterHighBand

VARIABLES
    fall_detected, waiting_for_response, emergency_mode,   \* safety.py:32-34
    detection_count, previous_z, z_history,                \* safety.py:47-63
    led_flash_stop_event,                                  \* safety.py:74
    led_on,                                                \* LED line of led_ctrl.py
    flash_pc,                   \* _emergency_flash_animation thread
    mon_pc, mon_z, mon_tmp,     \* _monitor_loop: position, local z, loaded count
    thr,                        \* position of each live timer / re-notifier thread
    timer_q,                    \* armed timers that have not fired, in arming order
    n_timers,                   \* number of falls declared (timers armed) so far
    cur_slot,                   \* the thread armed by the current episode
    usr_pc, usr_text,           \* main loop handling one line of user text
    run, scenario,              \* history: the sample sequence seen so far
    sent_cur,       \* history: activation notifications sent in the current episode (0, 1, 2 = more)
    cancel_cur,     \* history: a statement of _cancel_emergency ran in the current episode
    usr_found,      \* history: escalation state when the text being handled arrived
    conf_cur,       \* history: the current episode was confirmed before its deadline fired
    flash_stopped,  \* history: a cancel returned, no activation since
    is_active, stop_event,      \* safety.py:31, 71: the session runs; _stop_event
    log_event,      \* the event type the last step passed to csv_logger.log_event
    last_accel, fall_start_time, is_falling,   \* fall_detector.py:56-58
    current_time,               \* time.time() * 1000 (fall_detector.py:116)
    fdt_pc,                     \* FallDetector._monitor_loop: position
    prev_sample,    \* history: the last sample handed to FallDetector._detect_fall
    opened_above,   \* history: the sample that opened the potential fall was above the
                    \* threshold against the sample before it
    check_in_active,            \* health_alert.py:35
    ha_pc, ha_response,         \* check_on_user: position and response of each caller
    ha_alerts,      \* history: calls of send_discord_alert made by the caller's call
    ha_ret          \* the value the caller's last call returned

flags == <<fall_detected, waiting_for_response, emergency_mode>>
detvars == <<detection_count, previous_z, z_history>>
ledvars == <<led_flash_stop_event, led_on, flash_pc>>
monvars == <<mon_pc, mon_z, mon_tmp>>
thrvars == <<thr, timer_q, n_timers, cur_slot>>
usrvars == <<usr_pc, usr_text, usr_found>>
samplehist == <<run, scenario>>
eschist == <<sent_cur, cancel_cur, conf_cur, flash_stopped>>
lifevars == <<is_active, stop_event>>

safetyvars == <<flags, detvars, ledvars, monvars, thrvars, usrvars, samplehist, eschist,
               lifevars, log_event>>
fdvars == <<last_accel, fall_start_time, is_falling, current_time, fdt_pc,
            prev_sample, opened_above>>
havars == <<check_in_active, ha_pc, ha_response, ha_alerts, ha_ret>>

vars == <<safetyvars, fdvars, havars>>

(* ---------------- the classifier (pure part of _monitor_loop) ---------- *)
Abs(x) == IF x < 0 THEN -x ELSE x

RECURSIVE SumSeq(_)
SumSeq(s) == IF s = <<>> THEN 0 ELSE Head(s) + SumSeq(Tail(s))

(* variant: a full history drops the value just appended, not the oldest *)
PushHistoryKeepsOldest(h, za) ==
    LET a == Append(h, za)
    IN  IF Len(a) > z_history_size THEN SubSeq(a, 1, z_history_size) ELSE a

(* z_history.append(z_abs); pop(0) beyond z_history_size *)
PushHistory(h, za) ==
    LET a == Append(h, za)
    IN  IF Len(a) > z_history_size THEN Tail(a) ELSE a

OutsideJitter(h) ==
    Cardinality({i \in 1..Len(h) : h[i] < z_jitter_low \/ h[i] > z_jitter_high})

IsPatternDetected(h) == OutsideJitter(h) >= pattern_min_outside

(* variant: only the distance to the low band is tested *)
FarFromJitterLowOnly(h) ==
    Abs(SumSeq(h) - z_jitter_low * Len(h)) > jitter_margin * Len(h)

(* |mean(h) - low| > 0.1 and |mean(h) - high| > 0.1, multiplied by len(h) *)
FarFromJitter(h) ==
    /\ Abs(SumSeq(h) - z_jitter_low * Len(h)) > jitter_margin * Len(h)
    /\ Abs(SumSeq(h) - z_jitter_high * Len(h)) > jitter_margin * Len(h)

(* variant: the ceiling test of line 170 is missing *)
IsSuddenChangeNoCeiling(z, prev, h) ==
    Abs(z - prev) > z_change_threshold /\ IsPatternDetected(h) /\ FarFromJitter(h)

IsSuddenChange(z, prev, h) ==
    LET z_change == Abs(z - prev)
    IN  IF z_change > z_change_threshold
        THEN IF z_change > change_ceiling THEN TRUE
             ELSE IsPatternDetected(h) /\ FarFromJitter(h)
        ELSE FALSE

(* h is the history after this tick's sample was appended *)
TickHit(z, prev, h) ==
    \/ Abs(z) < free_fall_threshold
    \/ Abs(z) > impact_threshold
    \/ IsSuddenChange(z, prev, h)


(* ---------------- user text (main.py:389-401, safety.py:242-266) ------- *)
(* A text is a sequence of characters. *)
UpperCase == <<"A","B","C","D","E","F","G","H","I","J","K","L","M",
               "N","O","P","Q","R","S","T","U","V","W","X","Y","Z">>
LowerCase == <<"a","b","c","d","e","f","g","h","i","j","k","l","m",
               "n","o","p","q","r","s","t","u","v","w","x","y","z">>

LowerChar(c) ==
    IF \E k \in 1..26 : UpperCase[k] = c
    THEN LowerCase[CHOOSE k \in 1..26 : UpperCase[k] = c]
    ELSE c

Lower(t) == [k \in 1..Len(t) |-> LowerChar(t[k])]

RECURSIVE StripLeft(_)
StripLeft(t) == IF t # <<>> /\ Head(t) = " " THEN StripLeft(Tail(t)) ELSE t

RECURSIVE StripRight(_)
StripRight(t) ==
    IF t # <<>> /\ t[Len(t)] = " " THEN StripRight(SubSeq(t, 1, Len(t) - 1)) ELSE t

Strip(t) == StripRight(StripLeft(t))

(* Python's "phrase in text" *)
Contains(t, phrase) ==
    \E k \in 1..(Len(t) - Len(phrase) + 1) : SubSeq(t, k, k + Len(phrase) - 1) = phrase

okay_phrases == {
    <<"i", "'", "m", " ", "o", "k", "a", "y">>,
    <<"i", "m", " ", "o", "k", "a", "y">>,
    <<"i", " ", "a", "m", " ", "o", "k", "a", "y">>,
    <<"i", "'", "m", " ", "f", "i", "n", "e">>,
    <<"i", "m", " ", "f", "i", "n", "e">>,
    <<"i", " ", "a", "m", " ", "f", "i", "n", "e">>,
    <<"y", "e", "s", " ", "i", "'", "m", " ", "o", "k", "a", "y">>,
    <<"y", "e", "s", " ", "i", "m", " ", "o", "k", "a", "y">>,
    <<"y", "e", "s", " ", "i", " ", "a", "m", " ", "o", "k", "a", "y">>,
    <<"y", "e", "s", " ", "i", "'", "m", " ", "f", "i", "n", "e">>,
    <<"y", "e", "s", " ", "i", "m", " ", "f", "i", "n", "e">>,
    <<"y", "e", "s", " ", "i", " ", "a", "m", " ", "f", "i", "n", "e">>,
    <<"o", "k", "a", "y">>,
    <<"f", "i", "n", "e">>,
    <<"y", "e", "s">>,
    <<"i", "'", "m", " ", "s", "a", "f", "e">>,
    <<"i", "m", " ", "s", "a", "f", "e">>,
    <<"i", " ", "a", "m", " ", "s", "a", "f", "e">>}

safety_stop_phrases == {
    <<"s", "t", "o", "p", " ", "f", "a", "l", "l", " ", "d", "e", "t", "e", "c", "t", "i", "o", "n">>,
    <<"c", "a", "n", "c", "e", "l", " ", "f", "a", "l", "l", " ", "d", "e", "t", "e", "c", "t", "i", "o", "n">>,
    <<"t", "u", "r", "n", " ", "o", "f", "f", " ", "f", "a", "l", "l", " ", "d", "e", "t", "e", "c", "t", "i", "o", "n">>,
    <<"d", "i", "s", "a", "b", "l", "e", " ", "f", "a", "l", "l", " ", "d", "e", "t", "e", "c", "t", "i", "o", "n">>,
    <<"s", "t", "o", "p", " ", "s", "a", "f", "e", "t", "y">>,
    <<"c", "a", "n", "c", "e", "l", " ", "s", "a", "f", "e", "t", "y">>,
    <<"t", "u", "r", "n", " ", "o", "f", "f", " ", "s", "a", "f", "e", "t", "y">>,
    <<"d", "i", "s", "a", "b", "l", "e", " ", "s", "a", "f", "e", "t", "y">>}

(* variant: an empty phrase in the list, which every text contains *)
MatchesOkayEmptyPhrase(t) ==
    \E phrase \in okay_phrases \cup {<<>>} : Contains(Strip(Lower(t)), phrase)

(* safety.py:242-266 *)
MatchesOkay(t) == \E phrase \in okay_phrases : Contains(Strip(Lower(t)), phrase)

(* main.py:401, 601 *)
MatchesStop(t) == \E phrase \in safety_stop_phrases : Contains(Lower(t), phrase)

TextFine == <<"I", "'", "m", " ", "f", "i", "n", "e", ",", " ", "t", "h", "a", "n", "k", "s">>
TextOkayUpper == <<"I", "'", "M", " ", "O", "K", "A", "Y">>
TextHelp == <<"n", "o", ",", " ", "h", "e", "l", "p">>
TextStop == <<"S", "t", "o", "p", " ", "s", "a", "f", "e", "t", "y">>

TextMalformed == <<"?", "%", "{", "0", "}">>
TextBlank == <<" ", " ">>

(* Texts that reach the handlers (never empty: main.py:389-393). *)
UserTexts == {TextFine, TextOkayUpper, TextHelp, TextMalformed, TextStop}
(* Lines the user types, before main.py:389 strips them. *)
UserLines == UserTexts \cup {TextBlank, <<>>}
OkayTexts == {t \in UserTexts : MatchesOkay(t)}
StopTexts == {t \in UserTexts : MatchesStop(t)}

(* ---------------- constants of safety/health_alert.py ------------------ *)
(* threads that may call check_on_user *)
MaxCallers == 2
Callers == 1..MaxCallers

(* health_alert.py:182 *)
positive_keywords == {
    <<"y", "e", "s">>,
    <<"o", "k", "a", "y">>,
    <<"o", "k">>,
    <<"f", "i", "n", "e">>,
    <<"g", "o", "o", "d">>,
    <<"a", "l", "r", "i", "g", "h", "t">>,
    <<"i", "'", "m", " ", "o", "k", "a", "y">>,
    <<"i", "m", " ", "o", "k", "a", "y">>,
    <<"y", "e", "s", " ", "i", "'", "m", " ", "o", "k", "a", "y">>}

TextYesUpper == <<"Y", "E", "S">>
TextBroken == <<"m", "y", " ", "l", "e", "g", " ", "i", "s", " ", "b", "r", "o", "k", "e", "n">>
TextNotGood == <<"N", "o", "t", " ", "w", "e", "l", "l">>

(* what _listen hands to check_on_user (lines 52-81, 163): None (timeout,  *)
(* or listen_callback raised), a string, an object that is no string, or   *)
(* an exception of input() when there is no listen_callback                *)
RespNone == [kind |-> "none", text |-> <<>>]
RespObject == [kind |-> "object", text |-> <<>>]
RespRaises == [kind |-> "raises", text |-> <<>>]
RespText(t) == [kind |-> "text", text |-> t]
Responses ==
    {RespNone, RespObject, RespRaises}
        \cup {RespText(t) : t \in {<<>>, TextYesUpper, TextBroken, TextNotGood, TextFine,
                                   TextHelp, TextBlank}}

(* ---------------- escalation state (spec section 3) -------------------- *)
IsIdle == ~fall_detected /\ ~waiting_for_response /\ ~emergency_mode
IsAwaiting == fall_detected /\ waiting_for_response /\ ~emergency_mode
IsEmergency == fall_detected /\ ~waiting_for_response /\ emergency_mode

(* the deadline timer of the current episode has not fired yet *)
OwnTimerPending == mon_pc = "m210" \/ (cur_slot # 0 /\ thr[cur_slot] = "pending")

(* thread slots not in use; a new thread takes the lowest *)
FreeSlots == {i \in 1..MaxLive : thr[i] = "none"}
NewSlot == CHOOSE i \in FreeSlots : \A j \in FreeSlots : i <= j

(* ---------------- initial state: after __init__ and start() ------------ *)
Init ==
    /\ fall_detected = FALSE
    /\ waiting_for_response = FALSE
    /\ emergency_mode = FALSE
    /\ detection_count = 0
    /\ previous_z = None
    /\ z_history = <<>>
    /\ led_flash_stop_event = FALSE
    /\ led_on = FALSE
    /\ flash_pc = "dead"
    /\ mon_pc = "m131"
    /\ mon_z = None
    /\ mon_tmp = 0
    /\ thr = [i \in 1..MaxLive |-> "none"]
    /\ timer_q = <<>>
    /\ n_timers = 0
    /\ cur_slot = 0
    /\ usr_pc = "input"
    /\ usr_text = <<>>
    /\ run = 0
    /\ scenario = "none"
    /\ sent_cur = 0
    /\ cancel_cur = FALSE
    /\ usr_found = "other"
    /\ conf_cur = FALSE
    /\ flash_stopped = FALSE
    /\ is_active = TRUE
    /\ stop_event = FALSE
    /\ log_event = "none"
    /\ last_accel = NoAccel
    /\ fall_start_time = None
    /\ is_falling = FALSE
    /\ current_time = 0
    /\ fdt_pc = "f195"
    /\ prev_sample = NoAccel
    /\ opened_above = FALSE
    /\ check_in_active = FALSE
    /\ ha_pc = [c \in Callers |-> "idle"]
    /\ ha_response = [c \in Callers |-> RespNone]
    /\ ha_alerts = [c \in Callers |-> 0]
    /\ ha_ret = [c \in Callers |-> "none"]

(* ---------------- sampling thread: _monitor_loop ----------------------- *)
(* history variables: length of the current run of qualifying ticks        *)
(* (saturating), and whether the samples so far are rest-only or rest,     *)
(* one impact tick, rest.                                                  *)
NextRun(hit) == IF hit THEN (IF run < detection_threshold THEN run + 1 ELSE run) ELSE 0

NextScenario(z) ==
    CASE scenario = "rest" /\ InJitterBand(z) -> "rest"
      [] scenario = "rest" /\ Abs(z) > impact_threshold -> "impact"
      [] scenario = "impact" /\ InJitterBand(z) -> "impact"
      [] OTHER -> "none"

(* variant: a first sample in the free-fall or impact band counts as a hit *)
SeedCountsBand(z) ==
    IF Abs(z) < free_fall_threshold \/ Abs(z) > impact_threshold THEN 1 ELSE 0

(* line 190: the hit count after the first sample, whatever its value *)
SeedCount(z) == 0

(* the loop test of line 126 *)
Running == is_active /\ ~stop_event

(* the loop tests of lines 420 and 422 *)
Alerting == emergency_mode /\ ~stop_event

(* lines 126-146, on the first sample 187-192, and, on a tick that is not a *)
(* hit, 186 and 194; "started" is the thread before its first tick          *)
MonitorRead(S) ==
    /\ mon_pc \in {"m131", "started"}
    /\ Running
    /\ \E z \in S :
         IF previous_z = None
         THEN /\ previous_z' = z
              /\ detection_count' = SeedCount(z)
              /\ z_history' = <<Abs(z)>>
              /\ run' = 0
              /\ scenario' = IF InJitterBand(z) THEN "rest" ELSE "none"
              /\ mon_pc' = "m131"
              /\ UNCHANGED <<mon_z, mon_tmp>>
         ELSE LET h == PushHistory(z_history, Abs(z))
                  hit == TickHit(z, previous_z, h)
              IN  /\ hit => detection_count < MaxCount
                  /\ z_history' = h
                  /\ run' = NextRun(hit)
                  /\ scenario' = NextScenario(z)
                  /\ IF hit
                     THEN /\ mon_pc' = "m179"
                          /\ mon_z' = z
                          /\ mon_tmp' = detection_count
                          /\ UNCHANGED <<detection_count, previous_z>>
                     ELSE /\ detection_count' = 0
                          /\ previous_z' = z
                          /\ mon_pc' = "m131"
                          /\ UNCHANGED <<mon_z, mon_tmp>>
    /\ UNCHANGED <<flags, ledvars, thrvars, usrvars, eschist>>
    /\ log_event' = "none"
    /\ UNCHANGED <<lifevars, fdvars, havars>>

(* line 179: the store of detection_count += 1 *)
MonitorInc ==
    /\ mon_pc = "m179"
    /\ detection_count' = mon_tmp + 1
    /\ mon_tmp' = 0
    /\ mon_pc' = "m180"
    /\ UNCHANGED <<flags, previous_z, z_history, ledvars, mon_z,
                   thrvars, usrvars, samplehist, eschist>>
    /\ log_event' = "none"
    /\ UNCHANGED <<lifevars, fdvars, havars>>

(* line 180, and line 194 when the threshold is not reached *)
MonitorThreshold ==
    /\ mon_pc = "m180"
    /\ IF detection_count >= detection_threshold
       THEN mon_pc' = "m181" /\ UNCHANGED previous_z
       ELSE mon_pc' = "m131" /\ previous_z' = mon_z
    /\ UNCHANGED <<flags, detection_count, z_history, ledvars, mon_z, mon_tmp,
                   thrvars, usrvars, samplehist, eschist>>
    /\ log_event' = "none"
    /\ UNCHANGED <<lifevars, fdvars, havars>>

(* variant: the test of self.fall_detected is missing *)
AlreadyDetectedNever(fd) == FALSE

(* the test of self.fall_detected at lines 181 and 206 *)
AlreadyDetected(fd) == fd

(* lines 181 and 206-209: the test is made twice, and only this thread     *)
(* sets fall_detected, so the second test repeats the first                *)
DetectFall ==
    /\ mon_pc = "m181"
    /\ IF AlreadyDetected(fall_detected)
       THEN /\ mon_pc' = "m131"
            /\ previous_z' = mon_z
            /\ UNCHANGED <<fall_detected, usr_found, sent_cur, cancel_cur, conf_cur>>
       ELSE /\ n_timers < MaxEpisodes
            /\ FreeSlots # {}
            /\ fall_detected' = TRUE
            /\ mon_pc' = "m210"
            /\ sent_cur' = 0
            /\ cancel_cur' = FALSE
            /\ conf_cur' = FALSE
            /\ usr_found' = "other"
            /\ UNCHANGED previous_z
    /\ UNCHANGED <<waiting_for_response, emergency_mode, detection_count, z_history,
                   ledvars, mon_z, mon_tmp, thrvars, usr_pc, usr_text, samplehist,
                   flash_stopped>>
    /\ log_event' = "none"
    /\ UNCHANGED <<lifevars, fdvars, havars>>

(* variant: no timer thread; the sampling thread itself sleeps through the *)
(* 30 s before it goes on, and takes no step meanwhile                     *)
DetectFallArmSleeps ==
    /\ mon_pc = "m210"
    /\ waiting_for_response' = TRUE
    /\ detection_count' = 0
    /\ n_timers' = n_timers + 1
    /\ thr' = [thr EXCEPT ![NewSlot] = "pending"]
    /\ timer_q' = Append(timer_q, NewSlot)
    /\ cur_slot' = NewSlot
    /\ previous_z' = mon_z
    /\ mon_pc' = "sleep30"
    /\ UNCHANGED <<fall_detected, emergency_mode, z_history, ledvars, mon_z, mon_tmp,
                   usrvars, samplehist, eschist>>
    /\ log_event' = "fall_detected"
    /\ UNCHANGED <<lifevars, fdvars, havars>>

(* _detect_fall, lines 210-227 (flag, reset, log, arm the 30 s timer), then 194 *)
DetectFallArm ==
    /\ mon_pc = "m210"
    /\ waiting_for_response' = TRUE
    /\ detection_count' = 0
    /\ n_timers' = n_timers + 1
    /\ thr' = [thr EXCEPT ![NewSlot] = "pending"]
    /\ timer_q' = Append(timer_q, NewSlot)
    /\ cur_slot' = NewSlot
    /\ previous_z' = mon_z
    /\ mon_pc' = "m131"
    /\ UNCHANGED <<fall_detected, emergency_mode, z_history, ledvars, mon_z, mon_tmp,
                   usrvars, samplehist, eschist>>
    /\ log_event' = "fall_detected"
    /\ UNCHANGED <<lifevars, fdvars, havars>>

Monitor(S) ==
    \/ MonitorRead(S)
    \/ MonitorInc
    \/ MonitorThreshold
    \/ DetectFall
    \/ DetectFallArm

(* ---------------- sampling thread: exceptions inside the tick ---------- *)
(* a failed read that is taken for a tick without a hit: the count is reset *)
MonitorReadRaisesResets ==
    /\ mon_pc \in {"m131", "started"}
    /\ Running
    /\ mon_pc' = "m197"
    /\ detection_count' = 0
    /\ UNCHANGED <<flags, previous_z, z_history, ledvars, mon_z, mon_tmp, thrvars,
                   usrvars, samplehist, eschist>>
    /\ log_event' = "none"
    /\ UNCHANGED <<lifevars, fdvars, havars>>

(* line 131: read_z raises (accelerometer.py:60-86, the SPI transfer); the  *)
(* rest of the tick is skipped and control is in the handler of line 196    *)
MonitorReadRaises ==
    /\ mon_pc \in {"m131", "started"}
    /\ Running
    /\ mon_pc' = "m197"
    /\ UNCHANGED <<flags, detvars, ledvars, mon_z, mon_tmp, thrvars, usrvars,
                   samplehist, eschist>>
    /\ log_event' = "none"
    /\ UNCHANGED <<lifevars, fdvars, havars>>

(* _detect_fall, lines 210-218: the flag and the reset are written, then    *)
(* csv_logger.log_event raises; lines 220-227 (the timer) and line 194 are  *)
(* skipped and control is in the handler of line 196                        *)
DetectFallLogRaises ==
    /\ mon_pc = "m210"
    /\ waiting_for_response' = TRUE
    /\ detection_count' = 0
    /\ mon_pc' = "m197"
    /\ UNCHANGED <<fall_detected, emergency_mode, previous_z, z_history, ledvars,
                   mon_z, mon_tmp, thrvars, usrvars, samplehist, eschist>>
    /\ log_event' = "none"
    /\ UNCHANGED <<lifevars, fdvars, havars>>

(* a handler that gives up: the exception leaves the loop *)
MonitorExceptEnds ==
    /\ mon_pc = "m197"
    /\ mon_pc' = "ended"
    /\ UNCHANGED <<flags, detvars, ledvars, mon_z, mon_tmp, thrvars, usrvars,
                   samplehist, eschist>>
    /\ log_event' = "none"
    /\ UNCHANGED <<lifevars, fdvars, havars>>

(* lines 196-198 and 126: the handler sleeps one interval and the loop      *)
(* goes on to the next tick                                                 *)
MonitorExcept ==
    /\ mon_pc = "m197"
    /\ mon_pc' = "m131"
    /\ UNCHANGED <<flags, detvars, ledvars, mon_z, mon_tmp, thrvars, usrvars,
                   samplehist, eschist>>
    /\ log_event' = "none"
    /\ UNCHANGED <<lifevars, fdvars, havars>>

MonitorFaults ==
    \/ MonitorReadRaises
    \/ DetectFallLogRaises
    \/ MonitorExcept

(* ---------------- main thread: one line of user text ------------------ *)
(* main.py:389-584: a line of text arrives, is stripped, is skipped when    *)
(* empty, and safety.waiting_for_response is read                          *)
UserInput ==
    /\ usr_pc = "input"
    /\ \E line \in UserLines :
         IF Strip(line) = <<>>
         THEN UNCHANGED usrvars
         ELSE /\ usr_text' = Strip(line)
              /\ usr_pc' = IF waiting_for_response THEN "u239" ELSE "u601"
              /\ usr_found' = CASE IsAwaiting -> "await" [] IsEmergency -> "emerg" [] OTHER -> "other"
    /\ UNCHANGED <<flags, detvars, ledvars, monvars, thrvars, samplehist, eschist>>
    /\ log_event' = "none"
    /\ UNCHANGED <<lifevars, fdvars, havars>>

(* handle_user_response, lines 239-274 *)
HandleUserResponse ==
    /\ usr_pc = "u239"
    /\ IF waiting_for_response /\ usr_text \in OkayTexts
       THEN usr_pc' = "h291" /\ usr_text' = <<>>
       ELSE usr_pc' = "u601" /\ UNCHANGED usr_text
    /\ UNCHANGED <<flags, detvars, ledvars, monvars, thrvars, usr_found, samplehist, eschist>>
    /\ log_event' = "none"
    /\ UNCHANGED <<lifevars, fdvars, havars>>

(* main.py:601 *)
UserStopPhrase ==
    /\ usr_pc = "u601"
    /\ IF usr_text \in StopTexts
       THEN usr_pc' = "u603" /\ UNCHANGED usr_found
       ELSE usr_pc' = "input" /\ usr_found' = "other"
    /\ usr_text' = <<>>
    /\ UNCHANGED <<flags, detvars, ledvars, monvars, thrvars, samplehist, eschist>>
    /\ log_event' = "none"
    /\ UNCHANGED <<lifevars, fdvars, havars>>

(* main.py:603, first operand: safety.emergency_mode *)
UserStopEmergency ==
    /\ usr_pc = "u603"
    /\ usr_pc' = IF emergency_mode THEN "k291" ELSE "u603w"
    /\ UNCHANGED <<flags, detvars, ledvars, monvars, thrvars, usr_text, usr_found,
                   samplehist, eschist>>
    /\ log_event' = "none"
    /\ UNCHANGED <<lifevars, fdvars, havars>>

(* main.py:603, second operand: safety.waiting_for_response *)
UserStopWaiting ==
    /\ usr_pc = "u603w"
    /\ IF waiting_for_response
       THEN usr_pc' = "k291" /\ UNCHANGED usr_found
       ELSE usr_pc' = "input" /\ usr_found' = "other"
    /\ UNCHANGED <<flags, detvars, ledvars, monvars, thrvars, usr_text, samplehist, eschist>>
    /\ log_event' = "none"
    /\ UNCHANGED <<lifevars, fdvars, havars>>

(* _cancel_emergency, line 291; "h" from handle_user_response (268),      *)
(* "k" from cancel_fall_detection (278)                                    *)
CancelFall ==
    /\ usr_pc \in {"h291", "k291"}
    /\ fall_detected' = FALSE
    /\ usr_pc' = IF usr_pc = "h291" THEN "h292" ELSE "k292"
    /\ cancel_cur' = TRUE
    /\ UNCHANGED <<waiting_for_response, emergency_mode, detvars, ledvars, monvars,
                   thrvars, usr_text, usr_found, samplehist, sent_cur, conf_cur, flash_stopped>>
    /\ log_event' = "none"
    /\ UNCHANGED <<lifevars, fdvars, havars>>

(* _cancel_emergency, line 292 *)
CancelWaiting ==
    /\ usr_pc \in {"h292", "k292"}
    /\ waiting_for_response' = FALSE
    /\ usr_pc' = IF usr_pc = "h292" THEN "h293" ELSE "k293"
    /\ cancel_cur' = TRUE
    /\ UNCHANGED <<fall_detected, emergency_mode, detvars, ledvars, monvars,
                   thrvars, usr_text, usr_found, samplehist, sent_cur, conf_cur, flash_stopped>>
    /\ log_event' = "none"
    /\ UNCHANGED <<lifevars, fdvars, havars>>

(* _cancel_emergency, line 293 *)
CancelMode ==
    /\ usr_pc \in {"h293", "k293"}
    /\ emergency_mode' = FALSE
    /\ usr_pc' = IF usr_pc = "h293" THEN "h294" ELSE "k294"
    /\ cancel_cur' = TRUE
    /\ UNCHANGED <<fall_detected, waiting_for_response, detvars, ledvars, monvars,
                   thrvars, usr_text, usr_found, samplehist, sent_cur, conf_cur, flash_stopped>>
    /\ log_event' = "none"
    /\ UNCHANGED <<lifevars, fdvars, havars>>

(* _cancel_emergency, lines 294-299, then the log and return of the caller *)
(* (lines 269-271 or 279)                                                  *)
CancelFinish ==
    /\ usr_pc \in {"h294", "k294"}
    /\ detection_count' = 0
    /\ led_flash_stop_event' = TRUE
    /\ led_on' = FALSE
    /\ usr_pc' = "input"
    /\ usr_found' = "other"
    /\ flash_stopped' = TRUE
    /\ conf_cur' = IF usr_pc = "h294" /\ usr_found = "await" /\ OwnTimerPending
                   THEN TRUE ELSE conf_cur
    /\ cancel_cur' = TRUE
    /\ UNCHANGED <<flags, previous_z, z_history, flash_pc, monvars, thrvars,
                   usr_text, samplehist, sent_cur>>
    /\ log_event' = IF usr_pc = "h294" THEN "fall_response_okay" ELSE "fall_detection_cancelled"
    /\ UNCHANGED <<lifevars, fdvars, havars>>

User ==
    \/ UserInput
    \/ HandleUserResponse
    \/ UserStopPhrase
    \/ UserStopEmergency
    \/ UserStopWaiting
    \/ CancelFall
    \/ CancelWaiting
    \/ CancelMode
    \/ CancelFinish

(* ---------------- deadline timer threads (threading.Timer, line 225) --- *)
(* All timers wait the same 30 s, so they fire in the order they were       *)
(* armed, and as far apart as they were armed: at least the ticks that     *)
(* detection_threshold hits take.  The 30 s, and the distance between two  *)
(* firings, are long against the straight-line code of a handler: when a   *)
(* timer fires, the text the main loop was handling when the timer was     *)
(* armed has been dealt with, and the callback of the timer before it is   *)
(* past its tests and assignments (it may still be in the gateway call).   *)
TimerFire(i) ==
    /\ timer_q # <<>>
    /\ Head(timer_q) = i
    /\ usr_pc = "input"
    /\ \A j \in 1..MaxLive : thr[j] \notin {"t283", "t303", "t306", "t307", "t332"}
    /\ timer_q' = Tail(timer_q)
    /\ thr' = [thr EXCEPT ![i] = "t283"]
    /\ UNCHANGED <<flags, detvars, ledvars, monvars, n_timers, cur_slot, usrvars,
                   samplehist, eschist>>
    /\ log_event' = "none"
    /\ UNCHANGED <<lifevars, fdvars, havars>>

(* _timeout_emergency, line 283 *)
TimeoutEmergency(i) ==
    /\ thr[i] = "t283"
    /\ thr' = [thr EXCEPT ![i] = IF waiting_for_response THEN "t303" ELSE "none"]
    /\ UNCHANGED <<flags, detvars, ledvars, monvars, timer_q, n_timers, cur_slot,
                   usrvars, samplehist, eschist>>
    /\ log_event' = "none"
    /\ UNCHANGED <<lifevars, fdvars, havars>>

(* variant: the event is logged before the test of line 303 *)
ActivateGuardLogs(i) ==
    /\ thr[i] = "t303"
    /\ thr' = [thr EXCEPT ![i] = IF emergency_mode THEN "none" ELSE "t306"]
    /\ UNCHANGED <<flags, detvars, ledvars, monvars, timer_q, n_timers, cur_slot,
                   usrvars, samplehist, eschist>>
    /\ log_event' = IF emergency_mode THEN "emergency_activated" ELSE "none"
    /\ UNCHANGED <<lifevars, fdvars, havars>>

(* _activate_emergency, line 303 *)
ActivateGuard(i) ==
    /\ thr[i] = "t303"
    /\ thr' = [thr EXCEPT ![i] = IF emergency_mode THEN "none" ELSE "t306"]
    /\ UNCHANGED <<flags, detvars, ledvars, monvars, timer_q, n_timers, cur_slot,
                   usrvars, samplehist, eschist>>
    /\ log_event' = "none"
    /\ UNCHANGED <<lifevars, fdvars, havars>>

(* _activate_emergency, line 306 *)
ActivateMode(i) ==
    /\ thr[i] = "t306"
    /\ emergency_mode' = TRUE
    /\ thr' = [thr EXCEPT ![i] = "t307"]
    /\ UNCHANGED <<fall_detected, waiting_for_response, detvars, ledvars, monvars,
                   timer_q, n_timers, cur_slot, usrvars, samplehist, eschist>>
    /\ log_event' = "none"
    /\ UNCHANGED <<lifevars, fdvars, havars>>

(* _activate_emergency, lines 307-315 *)
ActivateWaiting(i) ==
    /\ thr[i] = "t307"
    /\ waiting_for_response' = FALSE
    /\ thr' = [thr EXCEPT ![i] = "t332"]
    /\ UNCHANGED <<fall_detected, emergency_mode, detvars, ledvars, monvars,
                   timer_q, n_timers, cur_slot, usrvars, samplehist, eschist>>
    /\ log_event' = "emergency_activated"
    /\ UNCHANGED <<lifevars, fdvars, havars>>

(* _start_emergency_flash, lines 332-338 *)
StartEmergencyFlash(i) ==
    /\ thr[i] = "t332"
    /\ led_flash_stop_event' = FALSE
    /\ flash_pc' = IF flash_pc # "dead" THEN flash_pc ELSE "f344"
    /\ flash_stopped' = FALSE
    /\ thr' = [thr EXCEPT ![i] = "t323"]
    /\ UNCHANGED <<flags, detvars, led_on, monvars, timer_q, n_timers, cur_slot,
                   usrvars, samplehist, sent_cur, cancel_cur, conf_cur>>
    /\ log_event' = "none"
    /\ UNCHANGED <<lifevars, fdvars, havars>>

(* _activate_emergency, line 323: _send_discord_alert sends the            *)
(* notification (status 204); then lines 328, 425-426: the re-notifier     *)
(* thread starts and the timer thread ends                                 *)
ActivateSend(i) ==
    /\ thr[i] = "t323"
    /\ thr' = [thr EXCEPT ![i] = "p420"]
    /\ sent_cur' = IF sent_cur < 2 THEN sent_cur + 1 ELSE 2
    /\ UNCHANGED <<flags, detvars, ledvars, monvars, timer_q, n_timers, cur_slot,
                   usrvars, samplehist, cancel_cur, conf_cur, flash_stopped>>
    /\ log_event' = "none"
    /\ UNCHANGED <<lifevars, fdvars, havars>>

(* a re-notifier without the loop: the thread ends after the first call *)
PeriodicLoopEnds(i) ==
    /\ thr[i] = "p420"
    /\ thr' = [thr EXCEPT ![i] = "none"]
    /\ UNCHANGED <<flags, detvars, ledvars, monvars, timer_q, n_timers, cur_slot,
                   usrvars, samplehist, eschist>>
    /\ log_event' = "none"
    /\ UNCHANGED <<lifevars, fdvars, havars>>

(* send_periodic, lines 420-421: loop test, then the 60 s sleep *)
PeriodicLoop(i) ==
    /\ thr[i] = "p420"
    /\ thr' = [thr EXCEPT ![i] = IF Alerting THEN "p422" ELSE "none"]
    /\ UNCHANGED <<flags, detvars, ledvars, monvars, timer_q, n_timers, cur_slot,
                   usrvars, samplehist, eschist>>
    /\ log_event' = "none"
    /\ UNCHANGED <<lifevars, fdvars, havars>>

(* send_periodic, line 422, after the sleep *)
PeriodicCheck(i) ==
    /\ thr[i] = "p422"
    /\ thr' = [thr EXCEPT ![i] = IF Alerting THEN "p423" ELSE "p420"]
    /\ UNCHANGED <<flags, detvars, ledvars, monvars, timer_q, n_timers, cur_slot,
                   usrvars, samplehist, eschist>>
    /\ log_event' = "none"
    /\ UNCHANGED <<lifevars, fdvars, havars>>

(* a re-notifier that ends the emergency once it has notified *)
PeriodicSendResets(i) ==
    /\ thr[i] = "p423"
    /\ thr' = [thr EXCEPT ![i] = "p420"]
    /\ emergency_mode' = FALSE
    /\ UNCHANGED <<fall_detected, waiting_for_response, detvars, ledvars, monvars,
                   timer_q, n_timers, cur_slot, usrvars, samplehist, eschist>>
    /\ log_event' = "none"
    /\ UNCHANGED <<lifevars, fdvars, havars>>

(* send_periodic, line 423: _send_discord_alert, whatever the result of    *)
(* the call: sent (line 405), refused (lines 407-411) or raised (lines      *)
(* 413-415), it returns to the loop of line 420                             *)
PeriodicSend(i) ==
    /\ thr[i] = "p423"
    /\ thr' = [thr EXCEPT ![i] = "p420"]
    /\ UNCHANGED <<flags, detvars, ledvars, monvars, timer_q, n_timers, cur_slot,
                   usrvars, samplehist, eschist>>
    /\ log_event' = "none"
    /\ UNCHANGED <<lifevars, fdvars, havars>>

Timer ==
    \E i \in 1..MaxLive :
        \/ TimerFire(i)
        \/ TimeoutEmergency(i)
        \/ ActivateGuard(i)
        \/ ActivateMode(i)
        \/ ActivateWaiting(i)
        \/ StartEmergencyFlash(i)
        \/ ActivateSend(i)

Periodic ==
    \E i \in 1..MaxLive :
        \/ PeriodicLoop(i)
        \/ PeriodicCheck(i)
        \/ PeriodicSend(i)

(* ---------------- event-log failure inside _activate_emergency -------- *)
(* lines 307-312: waiting_for_response is cleared, then                     *)
(* csv_logger.log_event raises; nothing on the timer thread catches it, so  *)
(* the thread ends before lines 318-328 (flash, gateway call, re-notifier)  *)
ActivateLogRaises(i) ==
    /\ thr[i] = "t307"
    /\ waiting_for_response' = FALSE
    /\ thr' = [thr EXCEPT ![i] = "none"]
    /\ UNCHANGED <<fall_detected, emergency_mode, detvars, ledvars, monvars,
                   timer_q, n_timers, cur_slot, usrvars, samplehist, eschist>>
    /\ log_event' = "none"
    /\ UNCHANGED <<lifevars, fdvars, havars>>

(* ---------------- gateway failures: _send_discord_alert ---------------- *)
(* a failure of the first call that propagates and ends the timer thread    *)
(* before line 328                                                          *)
ActivateSendFailsEndsThread(i) ==
    /\ thr[i] = "t323"
    /\ thr' = [thr EXCEPT ![i] = "none"]
    /\ UNCHANGED <<flags, detvars, ledvars, monvars, timer_q, n_timers, cur_slot,
                   usrvars, samplehist, eschist>>
    /\ log_event' = "none"
    /\ UNCHANGED <<lifevars, fdvars, havars>>

(* lines 322-323 and 399-415, the first call: the status is not 204        *)
(* (lines 407-411) or requests.post raises (lines 413-415); the failure is  *)
(* printed and logged, no notification was sent, _send_discord_alert       *)
(* returns and line 328 starts the re-notifier                              *)
ActivateSendFails(i) ==
    /\ thr[i] = "t323"
    /\ thr' = [thr EXCEPT ![i] = "p420"]
    /\ UNCHANGED <<flags, detvars, ledvars, monvars, timer_q, n_timers, cur_slot,
                   usrvars, samplehist, eschist>>
    /\ log_event' = "none"
    /\ UNCHANGED <<lifevars, fdvars, havars>>

GatewayFaults == \E i \in 1..MaxLive : ActivateSendFails(i)

(* ---------------- flash thread: _emergency_flash_animation ------------- *)
(* line 344 *)
FlashLoop ==
    /\ flash_pc = "f344"
    /\ flash_pc' = IF ~led_flash_stop_event /\ emergency_mode THEN "f346" ELSE "f359"
    /\ UNCHANGED <<flags, detvars, led_flash_stop_event, led_on, monvars, thrvars,
                   usrvars, samplehist, eschist>>
    /\ log_event' = "none"
    /\ UNCHANGED <<lifevars, fdvars, havars>>

(* lines 345-347 *)
FlashOn ==
    /\ flash_pc = "f346"
    /\ led_on' = TRUE
    /\ flash_pc' = "f349"
    /\ UNCHANGED <<flags, detvars, led_flash_stop_event, monvars, thrvars,
                   usrvars, samplehist, eschist>>
    /\ log_event' = "none"
    /\ UNCHANGED <<lifevars, fdvars, havars>>

(* lines 349-354: the test after the first sleep, then led.off() and the  *)
(* second sleep                                                            *)
FlashBreak ==
    /\ flash_pc = "f349"
    /\ IF led_flash_stop_event
       THEN flash_pc' = "f359" /\ UNCHANGED led_on
       ELSE flash_pc' = "f344" /\ led_on' = FALSE
    /\ UNCHANGED <<flags, detvars, led_flash_stop_event, monvars, thrvars,
                   usrvars, samplehist, eschist>>
    /\ log_event' = "none"
    /\ UNCHANGED <<lifevars, fdvars, havars>>

(* lines 357-359 *)
FlashExit ==
    /\ flash_pc = "f359"
    /\ led_on' = FALSE
    /\ flash_pc' = "dead"
    /\ UNCHANGED <<flags, detvars, led_flash_stop_event, monvars, thrvars,
                   usrvars, samplehist, eschist>>
    /\ log_event' = "none"
    /\ UNCHANGED <<lifevars, fdvars, havars>>

Flash ==
    \/ FlashLoop
    \/ FlashOn
    \/ FlashBreak
    \/ FlashExit

(* ---------------- stop() and start() ----------------------------------- *)
(* stop, lines 98-109, called by main.py:706 when the main loop has ended  *)
StopFlags ==
    /\ usr_pc = "input"
    /\ is_active
    /\ is_active' = FALSE
    /\ fall_detected' = FALSE
    /\ waiting_for_response' = FALSE
    /\ emergency_mode' = FALSE
    /\ stop_event' = TRUE
    /\ led_flash_stop_event' = TRUE
    /\ led_on' = FALSE
    /\ usr_pc' = "s112"
    /\ log_event' = "none"
    /\ UNCHANGED <<detvars, flash_pc, monvars, thrvars, usr_text, usr_found,
                   samplehist, eschist>>
    /\ UNCHANGED <<fdvars, havars>>

(* stop, lines 112-121: the joins return once the sampling thread (a tick  *)
(* of 0.06 s against 2 s) and the flash thread (0.1 s against 1 s) have    *)
(* ended; the event logged is safety_feature_stopped                       *)
StopJoin ==
    /\ usr_pc = "s112"
    /\ mon_pc = "exited"
    /\ flash_pc = "dead"
    /\ usr_pc' = "stopped"
    /\ log_event' = "none"
    /\ UNCHANGED <<flags, detvars, ledvars, monvars, thrvars, usr_text, usr_found,
                   samplehist, eschist, lifevars, fdvars, havars>>

(* _monitor_loop, line 126: the loop test fails and the thread ends *)
MonitorExit ==
    /\ mon_pc \in {"m131", "started"}
    /\ ~Running
    /\ mon_pc' = "exited"
    /\ log_event' = "none"
    /\ UNCHANGED <<flags, detvars, ledvars, mon_z, mon_tmp, thrvars, usrvars,
                   samplehist, eschist, lifevars, fdvars, havars>>

(* start, lines 79-94: a new sampling thread; detection_count, previous_z  *)
(* and z_history are not written; the event logged is                      *)
(* safety_feature_started                                                  *)
Start ==
    /\ usr_pc = "stopped"
    /\ ~is_active
    /\ is_active' = TRUE
    /\ fall_detected' = FALSE
    /\ waiting_for_response' = FALSE
    /\ emergency_mode' = FALSE
    /\ stop_event' = FALSE
    /\ led_flash_stop_event' = FALSE
    /\ mon_pc' = "started"
    /\ mon_z' = None
    /\ mon_tmp' = 0
    /\ usr_pc' = "input"
    /\ log_event' = "none"
    /\ UNCHANGED <<detvars, led_on, flash_pc, thrvars, usr_text, usr_found,
                   samplehist, eschist>>
    /\ UNCHANGED <<fdvars, havars>>

Lifecycle ==
    \/ StopFlags
    \/ StopJoin
    \/ MonitorExit
    \/ Start

(* ---------------- safety/fall_detector.py: FallDetector ---------------- *)
(* 2 * (v - ADC_CENTER), an integer: ADC_CENTER is 2047.5 *)
Centred(v) == 2 * v - ADC_MAX_VALUE

(* _calculate_magnitude, lines 99-104, squared and times ADC_MAX_VALUE^2 *)
SumSquares(a) ==
    Centred(a[1]) * Centred(a[1]) + Centred(a[2]) * Centred(a[2])
        + Centred(a[3]) * Centred(a[3])

(* the largest r in lo..hi with r * r <= n *)
RECURSIVE RootBetween(_, _, _)
RootBetween(n, lo, hi) ==
    IF lo = hi THEN lo
    ELSE LET mid == (lo + hi + 1) \div 2
         IN  IF mid * mid <= n THEN RootBetween(n, mid, hi)
                               ELSE RootBetween(n, lo, mid - 1)

(* math.sqrt of line 104 times ADC_MAX_VALUE, rounded down; the triples of *)
(* AccelSamples are far enough from the threshold for the rounding not to  *)
(* change a comparison                                                     *)
Magnitude(a) == RootBetween(SumSquares(a), 0, 2 * ADC_MAX_VALUE)

(* lines 123-129: delta_magnitude > FALL_THRESHOLD / ADC_CENTER, both      *)
(* sides times ADC_MAX_VALUE                                               *)
DeltaAbove(a, last) == Abs(Magnitude(a) - Magnitude(last)) > 2 * FALL_THRESHOLD

(* line 122: "not first reading" *)
NotFirstReading(last) == last[1] # 0

(* the truth value of "self.fall_start_time and (current_time -            *)
(* self.fall_start_time) > limit", lines 137 and 164                       *)
OpenLongerThan(start, now, limit) == start # None /\ start # 0 /\ now - start > limit

(* _monitor_loop, lines 192-203, with _detect_fall up to its decision      *)
(* (lines 116-137 and 161-171): the clock has moved on since the last      *)
(* sample; a triple with a failed read is skipped (line 199); a confirmed  *)
(* fall leaves the thread before the callbacks of lines 139-155            *)
FDSample ==
    /\ fdt_pc = "f195"
    /\ \E dt \in TimeSteps, a \in AccelSamples \cup {AccReadError} :
         /\ current_time + dt <= MaxNow
         /\ current_time' = current_time + dt
         /\ IF a[1] < 0 \/ a[2] < 0 \/ a[3] < 0
            THEN UNCHANGED <<last_accel, fall_start_time, is_falling, fdt_pc,
                             prev_sample, opened_above>>
            ELSE /\ prev_sample' = a
                 /\ IF NotFirstReading(last_accel)
                    THEN IF DeltaAbove(a, last_accel)
                         THEN IF ~is_falling
                              THEN /\ fall_start_time' = current_time'
                                   /\ is_falling' = TRUE
                                   /\ opened_above' =
                                        (prev_sample # NoAccel /\ DeltaAbove(a, prev_sample))
                                   /\ last_accel' = a
                                   /\ UNCHANGED fdt_pc
                              ELSE IF OpenLongerThan(fall_start_time, current_time',
                                                     FALL_DURATION_MS)
                                   THEN /\ fdt_pc' = "f139"
                                        /\ UNCHANGED <<last_accel, fall_start_time,
                                                       is_falling, opened_above>>
                                   ELSE /\ last_accel' = a
                                        /\ UNCHANGED <<fall_start_time, is_falling,
                                                       fdt_pc, opened_above>>
                         ELSE IF is_falling /\ OpenLongerThan(fall_start_time, current_time',
                                                             STABLE_DURATION_MS)
                              THEN /\ fall_start_time' = None
                                   /\ is_falling' = FALSE
                                   /\ opened_above' = FALSE
                                   /\ last_accel' = a
                                   /\ UNCHANGED fdt_pc
                              ELSE /\ last_accel' = a
                                   /\ UNCHANGED <<fall_start_time, is_falling,
                                                  fdt_pc, opened_above>>
                    ELSE /\ last_accel' = a
                         /\ UNCHANGED <<fall_start_time, is_falling, fdt_pc, opened_above>>
    /\ UNCHANGED <<safetyvars, havars>>

(* lines 139-147: log_callback returns, or raises and control is in the    *)
(* handler of line 148                                                     *)
FDLogCallback ==
    /\ fdt_pc = "f139"
    /\ fdt_pc' \in {"f151", "f149"}
    /\ UNCHANGED <<last_accel, fall_start_time, is_falling, current_time,
                   prev_sample, opened_above, safetyvars, havars>>

(* lines 148-149 *)
FDLogExcept ==
    /\ fdt_pc = "f149"
    /\ fdt_pc' = "f151"
    /\ UNCHANGED <<last_accel, fall_start_time, is_falling, current_time,
                   prev_sample, opened_above, safetyvars, havars>>

(* variant: an exception of fall_callback is not caught in _detect_fall; it *)
(* reaches the handler of _monitor_loop, line 204                           *)
FDFallCallbackPropagates ==
    /\ fdt_pc = "f151"
    /\ fdt_pc' \in {"f158", "f204"}
    /\ UNCHANGED <<last_accel, fall_start_time, is_falling, current_time,
                   prev_sample, opened_above, safetyvars, havars>>

(* lines 151-153: fall_callback returns, or raises and control is in the   *)
(* handler of line 154                                                     *)
FDFallCallback ==
    /\ fdt_pc = "f151"
    /\ fdt_pc' \in {"f158", "f155"}
    /\ UNCHANGED <<last_accel, fall_start_time, is_falling, current_time,
                   prev_sample, opened_above, safetyvars, havars>>

(* lines 154-155 *)
FDFallExcept ==
    /\ fdt_pc = "f155"
    /\ fdt_pc' = "f158"
    /\ UNCHANGED <<last_accel, fall_start_time, is_falling, current_time,
                   prev_sample, opened_above, safetyvars, havars>>

(* lines 158-160, then line 203: the fall state is reset, _detect_fall     *)
(* returns True without the update of line 170, and the loop sleeps        *)
FDReset ==
    /\ fdt_pc = "f158"
    /\ is_falling' = FALSE
    /\ fall_start_time' = None
    /\ opened_above' = FALSE
    /\ fdt_pc' = "f195"
    /\ UNCHANGED <<last_accel, current_time, prev_sample, safetyvars, havars>>

FallDetector ==
    \/ FDSample
    \/ FDLogCallback
    \/ FDLogExcept
    \/ FDFallCallback
    \/ FDFallExcept
    \/ FDReset

(* ---------------- safety/health_alert.py: HealthAlert ----------------- *)
(* variant: the response has to be a keyword, not to contain one *)
IsOkayWholeResponse(t) == Strip(Lower(t)) \in positive_keywords

(* lines 179-183: any(keyword in response_lower ...) *)
IsOkay(t) == \E keyword \in positive_keywords : Contains(Strip(Lower(t)), keyword)

(* a thread calls check_on_user *)
HACall(c) ==
    /\ ha_pc[c] = "idle"
    /\ ha_pc' = [ha_pc EXCEPT ![c] = "c148"]
    /\ ha_alerts' = [ha_alerts EXCEPT ![c] = 0]
    /\ ha_ret' = [ha_ret EXCEPT ![c] = "none"]
    /\ ha_response' = [ha_response EXCEPT ![c] = RespNone]
    /\ UNCHANGED <<check_in_active, safetyvars, fdvars>>

(* lines 148-150 *)
HACheckActive(c) ==
    /\ ha_pc[c] = "c148"
    /\ IF check_in_active
       THEN /\ ha_pc' = [ha_pc EXCEPT ![c] = "idle"]
            /\ ha_ret' = [ha_ret EXCEPT ![c] = "True"]
       ELSE /\ ha_pc' = [ha_pc EXCEPT ![c] = "c152"]
            /\ UNCHANGED ha_ret
    /\ UNCHANGED <<check_in_active, ha_response, ha_alerts, safetyvars, fdvars>>

(* line 152 *)
HASetActive(c) ==
    /\ ha_pc[c] = "c152"
    /\ check_in_active' = TRUE
    /\ ha_pc' = [ha_pc EXCEPT ![c] = "c155"]
    /\ UNCHANGED <<ha_response, ha_alerts, ha_ret, safetyvars, fdvars>>

(* lines 155-163: the prompt, the log and _listen; _say and _log catch     *)
(* what their callbacks raise (lines 42-50, 83-89)                         *)
HAListen(c) ==
    /\ ha_pc[c] = "c155"
    /\ \E r \in Responses :
         /\ ha_response' = [ha_response EXCEPT ![c] = r]
         /\ ha_pc' = [ha_pc EXCEPT ![c] = IF r.kind = "raises" THEN "c211" ELSE "c165"]
    /\ UNCHANGED <<check_in_active, ha_alerts, ha_ret, safetyvars, fdvars>>

(* lines 165-174, 179-190 and 195-206: no response and a response without  *)
(* keyword call send_discord_alert once; response.lower() of an object     *)
(* that is no string raises (line 179)                                     *)
HADecide(c) ==
    /\ ha_pc[c] = "c165"
    /\ LET r == ha_response[c]
       IN  CASE r.kind = "none" \/ (r.kind = "text" /\ r.text = <<>>) ->
                  /\ ha_alerts' = [ha_alerts EXCEPT ![c] = @ + 1]
                  /\ ha_ret' = [ha_ret EXCEPT ![c] = "False"]
                  /\ ha_pc' = [ha_pc EXCEPT ![c] = "c175"]
             [] r.kind = "object" ->
                  /\ ha_pc' = [ha_pc EXCEPT ![c] = "c211"]
                  /\ UNCHANGED <<ha_alerts, ha_ret>>
             [] r.kind = "text" /\ r.text # <<>> /\ IsOkay(r.text) ->
                  /\ ha_ret' = [ha_ret EXCEPT ![c] = "True"]
                  /\ ha_pc' = [ha_pc EXCEPT ![c] = "c191"]
                  /\ UNCHANGED ha_alerts
             [] OTHER ->
                  /\ ha_alerts' = [ha_alerts EXCEPT ![c] = @ + 1]
                  /\ ha_ret' = [ha_ret EXCEPT ![c] = "False"]
                  /\ ha_pc' = [ha_pc EXCEPT ![c] = "c207"]
    /\ UNCHANGED <<check_in_active, ha_response, safetyvars, fdvars>>

(* lines 210-218: the handler sends the alert; send_discord_alert catches  *)
(* its own exceptions (lines 105-138)                                      *)
HAExcept(c) ==
    /\ ha_pc[c] = "c211"
    /\ ha_alerts' = [ha_alerts EXCEPT ![c] = @ + 1]
    /\ ha_ret' = [ha_ret EXCEPT ![c] = "False"]
    /\ ha_pc' = [ha_pc EXCEPT ![c] = "c219"]
    /\ UNCHANGED <<check_in_active, ha_response, safetyvars, fdvars>>

(* lines 175, 191, 207, 219: check_in_active = False before the return *)
HAReset(c) ==
    /\ ha_pc[c] \in {"c175", "c191", "c207", "c219"}
    /\ check_in_active' = FALSE
    /\ ha_pc' = [ha_pc EXCEPT ![c] = "c222"]
    /\ UNCHANGED <<ha_response, ha_alerts, ha_ret, safetyvars, fdvars>>

(* lines 221-222: the finally clause, then the call returns *)
HAFinally(c) ==
    /\ ha_pc[c] = "c222"
    /\ check_in_active' = FALSE
    /\ ha_pc' = [ha_pc EXCEPT ![c] = "idle"]
    /\ UNCHANGED <<ha_response, ha_alerts, ha_ret, safetyvars, fdvars>>

HealthAlert ==
    \E c \in Callers :
        \/ HACall(c)
        \/ HACheckActive(c)
        \/ HASetActive(c)
        \/ HAListen(c)
        \/ HADecide(c)
        \/ HAExcept(c)
        \/ HAReset(c)
        \/ HAFinally(c)

(* ---------------- specifications --------------------------------------- *)
(* the whole program *)
Next ==
    \/ Monitor(EscSamples)
    \/ User
    \/ Timer
    \/ Periodic
    \/ Flash

Spec == Init /\ [][Next]_vars

(* the whole program with stop() and start() *)
NextLifecycle ==
    \/ Next
    \/ Lifecycle

SpecLifecycle == Init /\ [][NextLifecycle]_vars

(* the sampling thread alone, over the full range of readings *)
NextClassifier == Monitor(Samples)

SpecClassifier == Init /\ [][NextClassifier]_vars

(* the sampling thread alone, over readings of both signs *)
NextHistory == Monitor(SignedSamples)

SpecHistory == Init /\ [][NextHistory]_vars

(* the monitoring thread of FallDetector *)
NextFallDetector == FallDetector

SpecFallDetector == Init /\ [][NextFallDetector]_vars

(* the threads that call HealthAlert.check_on_user *)
NextHealthAlert == HealthAlert

SpecHealthAlert == Init /\ [][NextHealthAlert]_vars

(* the sampling thread with stop() and start() *)
NextRestart ==
    \/ Monitor(Samples)
    \/ Lifecycle

SpecRestart == Init /\ [][NextRestart]_vars

(* the threads that read or write the three flags and the timers: the      *)
(* program without the flash thread, which reads emergency_mode and the    *)
(* stop event and writes only the LED and its own position                 *)
NextFlags ==
    \/ Monitor(EscSamples)
    \/ User
    \/ Timer
    \/ Periodic

SpecFlags == Init /\ [][NextFlags]_vars

(* the same threads with gateway calls that can fail *)
NextGatewayFaults ==
    \/ NextFlags
    \/ GatewayFaults

SpecGatewayFaults == Init /\ [][NextGatewayFaults]_vars

(* the steps of one timer or re-notifier thread *)
ThreadStep(i) ==
    \/ TimeoutEmergency(i)
    \/ ActivateGuard(i)
    \/ ActivateMode(i)
    \/ ActivateWaiting(i)
    \/ StartEmergencyFlash(i)
    \/ ActivateSend(i)
    \/ PeriodicLoop(i)
    \/ PeriodicCheck(i)
    \/ PeriodicSend(i)

(* a session in which the user never answers *)
NextUnanswered ==
    \/ Monitor(Samples)
    \/ Timer
    \/ Periodic

(* fair scheduling: a started thread that can take a step takes it (its    *)
(* sleep ends, its call returns within the 5 s timeout of line 402)        *)
SpecLive ==
    /\ Init
    /\ [][NextUnanswered]_vars
    /\ \A i \in 1..MaxLive : WF_vars(ThreadStep(i))

(* a session in which the user never answers, over the full range of       *)
(* readings, with the failures of the environment: a sensor read that      *)
(* raises, an event log that raises inside _detect_fall, a first gateway    *)
(* call that fails                                                          *)
NextMonitorFaults ==
    \/ NextUnanswered
    \/ MonitorFaults
    \/ GatewayFaults

SpecMonitorFaults == Init /\ [][NextMonitorFaults]_vars

(* the same session with every failure of the event log, under fair        *)
(* scheduling: an armed timer fires, a started thread and the sampling      *)
(* thread take their steps                                                  *)
NextLiveFaults ==
    \/ NextMonitorFaults
    \/ \E i \in 1..MaxLive : ActivateLogRaises(i)

SpecLiveFaults ==
    /\ Init
    /\ [][NextLiveFaults]_vars
    /\ WF_vars(Monitor(Samples) \/ MonitorExcept)
    /\ \A i \in 1..MaxLive : WF_vars(TimerFire(i)) /\ WF_vars(ThreadStep(i))

(* ======================= properties ==================================== *)

(* no thread is inside a handler that reads or writes the flags *)
Quiescent ==
    /\ mon_pc \notin {"m181", "m210"}
    /\ usr_pc \in {"input", "u601"}
    /\ \A i \in 1..MaxLive : thr[i] \notin {"t283", "t303", "t306", "t307"}

(* the deadline timer of the current episode has fired *)
OwnTimerDone ==
    /\ mon_pc # "m210"
    /\ cur_slot # 0
    /\ thr[cur_slot] # "pending"

(* no timer callback is between its first test and its gateway call *)
CallbacksDone ==
    \A i \in 1..MaxLive : thr[i] \notin {"t283", "t303", "t306", "t307", "t332", "t323"}

(* C1: in an episode in which no statement of a confirm or cancel ran, at   *)
(* most one activation notification is sent, and once the deadline timer    *)
(* of the episode has fired and every callback has run, the state is        *)
(* Emergency and exactly one activation notification has been sent.         *)
C1_EscalatesOnce ==
    ~cancel_cur =>
        /\ sent_cur <= 1
        /\ (OwnTimerDone /\ CallbacksDone) => (IsEmergency /\ sent_cur = 1)

(* C2: once a confirming text that found AwaitingConfirmation has been      *)
(* handled before the deadline timer of the episode fired, the state is     *)
(* Idle and no thread activates the emergency for that episode.             *)
C2_ConfirmResets ==
    conf_cur => IsIdle /\ sent_cur = 0

C4_IdleStability == scenario = "rest" => ~fall_detected

(* C5: a fall is declared only when detection_threshold consecutive         *)
(* qualifying ticks have just been seen; a tick that does not qualify       *)
(* leaves the count at 0; and after rest, one impact tick and rest again    *)
(* no fall has been declared.                                               *)
C5_Sustained ==
    /\ mon_pc = "m210" => run >= detection_threshold
    /\ (mon_pc = "m131" /\ run = 0) => detection_count = 0
    /\ scenario = "impact" => ~fall_detected

(* C6: a tick whose sample differs from the previous one by more than the   *)
(* ceiling counts as a hit, whatever the history.                           *)
C6_LargeDelta ==
    [][ ( /\ mon_pc = "m131"
          /\ previous_z # None
          /\ z_history' # z_history
          /\ Abs(z_history'[Len(z_history')] - previous_z) > change_ceiling )
        => (mon_pc' = "m179" /\ run' > 0) ]_vars

(* the first comparison after the seed, a jump between the resting bands,   *)
(* neither free fall nor impact, no pattern in the history                  *)
C6_Witness ==
    /\ mon_pc = "m179"
    /\ Len(z_history) = 2
    /\ Abs(mon_z - previous_z) > change_ceiling
    /\ Abs(mon_z) >= free_fall_threshold
    /\ Abs(mon_z) <= impact_threshold
    /\ ~IsPatternDetected(z_history)

(* C7: a confirming text that arrived in Emergency leaves the state Idle    *)
(* when its handling is over.                                               *)
C7_ConfirmInEmergency ==
    [][ ( /\ usr_found = "emerg"
          /\ usr_text \in OkayTexts
          /\ usr_pc # "input"
          /\ usr_pc' = "input" )
        => IsIdle' ]_vars

(* C8: every gateway call (activation or periodic) is made in Emergency.    *)
C8_NoStrayNotification ==
    [][ \A i \in 1..MaxLive :
          (thr[i] \in {"t323", "p423"} /\ thr'[i] # thr[i]) => IsEmergency ]_vars

(* C9: when no handler is mid-transition the flags are one of Idle,         *)
(* AwaitingConfirmation, Emergency.                                         *)
C9_SerializedState ==
    Quiescent => IsIdle \/ IsAwaiting \/ IsEmergency

(* C10: after a confirm or cancel has returned, and until an emergency is   *)
(* activated again, the LED is not switched on.                             *)
C10_FlashStopped == flash_stopped => ~led_on

(* texts that contain neither an okay phrase nor a stop phrase *)
NonMatchingTexts == {TextHelp, TextMalformed}

(* C11: no step of the handling of a non-matching text (an empty line is    *)
(* skipped before the handlers) changes the flags, the hit count, the       *)
(* pending timers, the timer and notifier threads or the notifications      *)
(* sent, and the handling goes on to the next test or returns.              *)
C11_NonMatchingIgnored ==
    [][ \A t \in NonMatchingTexts :
          ( \/ usr_pc = "input" /\ usr_pc' # "input" /\ usr_text' = t
            \/ usr_pc \in {"u239", "u601"} /\ usr_pc' # usr_pc /\ usr_text = t )
          => /\ UNCHANGED <<flags, detvars, thrvars, sent_cur>>
             /\ usr_pc' \in {"u239", "u601", "input"} ]_vars

(* handle_user_response has returned False for a non-matching text that    *)
(* arrived in AwaitingConfirmation; the deadline is still pending          *)
C11_Witness ==
    /\ usr_pc = "u601"
    /\ usr_text \in NonMatchingTexts
    /\ usr_found = "await"
    /\ IsAwaiting
    /\ OwnTimerPending

(* C12: when the handling of an explicit cancel command that arrived in     *)
(* AwaitingConfirmation or in Emergency returns, the state is Idle.         *)
C12_ExplicitCancel ==
    [][ ( /\ usr_pc = "k294"
          /\ usr_found \in {"await", "emerg"}
          /\ usr_pc' = "input" )
        => IsIdle' ]_vars

(* C13: Emergency is sticky. emergency_mode, once set, is cleared only by   *)
(* line 293 of _cancel_emergency run for a user confirmation or an explicit *)
(* cancel command, whatever the ticks, the timers and the re-notifier do.   *)
C13_EmergencySticky ==
    [][ (emergency_mode /\ ~emergency_mode') => usr_pc \in {"h293", "k293"} ]_vars

(* in Emergency, after the activation notification, with ticks that went on *)
(* counting hits and the re-notifier about to send again                    *)
C13_Witness ==
    /\ IsEmergency
    /\ sent_cur = 1
    /\ detection_count >= detection_threshold
    /\ \E i \in 1..MaxLive : thr[i] = "p423"

(* C14: a gateway call, failed or not, first or periodic, leaves the three  *)
(* flags unchanged and returns into the re-notification loop, and the loop  *)
(* goes from its test through the 60 s sleep to the next call for as long   *)
(* as emergency_mode is set.                                                *)
C14_BestEffort ==
    [][ \A i \in 1..MaxLive :
          /\ (thr[i] \in {"t323", "p423"} /\ thr'[i] # thr[i])
                => (UNCHANGED flags /\ thr'[i] = "p420")
          /\ (thr[i] = "p420" /\ thr'[i] # thr[i] /\ emergency_mode)
                => thr'[i] = "p422"
          /\ (thr[i] = "p422" /\ thr'[i] # thr[i] /\ emergency_mode)
                => thr'[i] = "p423" ]_vars

(* the first notification of the episode failed, the state is Emergency and *)
(* the re-notifier of the episode is about to call the gateway again        *)
C14_Witness ==
    /\ IsEmergency
    /\ sent_cur = 0
    /\ mon_pc # "m210"
    /\ cur_slot # 0
    /\ thr[cur_slot] = "p423"

(* C15: under fair scheduling, either the state leaves Emergency again and  *)
(* again or the gateway is called again and again: notifications recur for  *)
(* as long as the state stays Emergency.                                    *)
C15_Renotifies ==
    []<>(~IsEmergency \/ \E i \in 1..MaxLive : thr[i] = "p423")

(* Emergency, neither confirmed nor cancelled, the first notification sent, *)
(* 60 s elapsed, the re-notifier at its next call, and ticks that are not   *)
(* hits going on meanwhile                                                  *)
C15_Witness ==
    /\ IsEmergency
    /\ ~cancel_cur
    /\ sent_cur = 1
    /\ usr_pc = "input"
    /\ InJitterBand(previous_z)
    /\ \E i \in 1..MaxLive : thr[i] = "p423"

(* C16: a tick whose sensor read raises changes neither the hit count, the  *)
(* previous value, the history, the flags nor the timers, and the handler   *)
(* hands over to the next tick with all of them still unchanged.            *)
C16_ReadFailureSkipsTick ==
    [][ /\ (mon_pc = "m131" /\ mon_pc' = "m197")
            => UNCHANGED <<flags, detvars, thrvars>>
        /\ (mon_pc = "m197" /\ mon_pc' # "m197")
            => (mon_pc' = "m131" /\ UNCHANGED <<flags, detvars, thrvars>>) ]_vars

(* the read has raised in the middle of a run of hits *)
C16_Witness ==
    /\ mon_pc = "m197"
    /\ detection_count = detection_threshold - 1
    /\ previous_z # None
    /\ Len(z_history) = z_history_size
    /\ IsIdle

(* the control locations of the sampling loop *)
LoopPcs == {"m131", "m179", "m180", "m181", "m210", "m197"}

EscalationWorkPending ==
    \E i \in 1..MaxLive : thr[i] \in {"pending", "t323", "p423"}

(* C19: while the confirmation deadline is running and while a gateway      *)
(* call, first or periodic, has not returned, the sampling thread can take  *)
(* its next step: it waits for neither.                                     *)
C19_SamplingNeverBlocks ==
    EscalationWorkPending => ENABLED (Monitor(Samples) \/ MonitorExcept)

(* the deadline is running and a sample read meanwhile is being counted,    *)
(* or the first gateway call has not returned and the same holds            *)
C19_Witness ==
    /\ mon_pc = "m179"
    /\ \/ IsAwaiting /\ cur_slot # 0 /\ thr[cur_slot] = "pending"
       \/ IsEmergency /\ cur_slot # 0 /\ thr[cur_slot] = "t323"

(* C20: the sample processed while previous_z is None only seeds: the       *)
(* previous value is the sample, the history is its absolute value alone,   *)
(* the hit count is 0, the loop is at the next read and no flag or timer    *)
(* changes; and a fall is declared only with the seed and three later       *)
(* samples in the history.                                                  *)
C20_FirstSampleSeeds ==
    [][ /\ (previous_z = None /\ previous_z' # None)
            => /\ z_history' = <<Abs(previous_z')>>
               /\ detection_count' = 0
               /\ mon_pc' = "m131"
               /\ UNCHANGED <<flags, thrvars>>
        /\ fall_detected' => Len(z_history') > detection_threshold ]_vars

(* a first sample in the free-fall band or in the impact band has been      *)
(* processed: it is the previous value, nothing is counted, no fall         *)
C20_Witness ==
    /\ previous_z # None
    /\ (Abs(previous_z) < free_fall_threshold \/ Abs(previous_z) > impact_threshold)
    /\ z_history = <<Abs(previous_z)>>
    /\ detection_count = 0
    /\ mon_pc = "m131"
    /\ IsIdle

(* the sample of the tick a step of the sampling thread has just read *)
TickSample == IF mon_pc' = "m179" THEN mon_z' ELSE previous_z'

(* C21: a tick whose delta is above 0.45 and not above 0.5, and whose value *)
(* is neither in the free-fall nor in the impact band, is a hit exactly     *)
(* when at least 3 values of the history lie outside [0.15, 0.65] and the   *)
(* mean of the history is more than 0.1 away from 0.15 and from 0.65.       *)
C21_JitterRejection ==
    [][ ( /\ mon_pc = "m131"
          /\ previous_z # None
          /\ z_history' # z_history
          /\ Abs(TickSample - previous_z) > z_change_threshold
          /\ Abs(TickSample - previous_z) <= change_ceiling
          /\ Abs(TickSample) >= free_fall_threshold
          /\ Abs(TickSample) <= impact_threshold )
        => LET h == z_history'
               n == Len(h)
               outside == {i \in 1..n : h[i] \notin z_jitter_low..z_jitter_high}
               total == SumSeq(h)
           IN  (mon_pc' = "m179") <=>
                 /\ Cardinality(outside) >= 3
                 /\ total - z_jitter_low * n \notin (-(jitter_margin * n))..(jitter_margin * n)
                 /\ total - z_jitter_high * n \notin (-(jitter_margin * n))..(jitter_margin * n) ]_vars

(* a tick with a delta between the threshold and the ceiling has been kept *)
(* as a sudden change                                                      *)
C21_Witness ==
    /\ mon_pc = "m179"
    /\ Abs(mon_z - previous_z) > z_change_threshold
    /\ Abs(mon_z - previous_z) <= change_ceiling
    /\ mon_z \in free_fall_threshold..impact_threshold

(* C23: emergency_mode is set only by the deadline timer that the current   *)
(* episode armed, never by a timer armed for an earlier episode.            *)
C23_OwnDeadline ==
    [][ (~emergency_mode /\ emergency_mode')
        => (cur_slot # 0 /\ thr[cur_slot] = "t306") ]_vars

(* C24: under fair scheduling an episode in AwaitingConfirmation leads to   *)
(* Idle or to Emergency with the re-notifier started after a gateway call,  *)
(* also when the event log raises while the fall is declared or while the   *)
(* emergency is activated.                                                  *)
C24_EventuallyResolved ==
    IsAwaiting ~> ( \/ IsIdle
                    \/ IsEmergency /\ \E i \in 1..MaxLive : thr[i] \in {"p420", "p422", "p423"} )

(* the re-notifier threads that are alive *)
LivePeriodic == {i \in 1..MaxLive : thr[i] \in {"p420", "p422", "p423"}}

(* C25: at most one periodic re-notification loop is alive: whenever a      *)
(* re-notifier makes its periodic gateway call, it is the only one alive.   *)
C25_OnePeriodicLoop ==
    [][ \A i \in 1..MaxLive :
          (thr[i] = "p423" /\ thr'[i] = "p420") => LivePeriodic = {i} ]_vars

(* C28: the hit count, the previous value and the history are written only  *)
(* by steps of the sampling thread, never by a step of the main thread or   *)
(* of a timer thread.                                                       *)
C28_SingleWriter ==
    [][ (detvars' # detvars)
        => /\ usr_pc' = usr_pc
           /\ \A i \in 1..MaxLive : thr[i] \notin {"none", "pending"} => thr'[i] = thr[i] ]_vars

(* C29: once the activation of an emergency has gone through its flash      *)
(* step and the state is Emergency, the flash thread is alive.              *)
C29_FlashDuringEmergency ==
    ( /\ IsEmergency
      /\ \A i \in 1..MaxLive : thr[i] \notin {"t307", "t332"} )
    => flash_pc # "dead"

(* C30: a processed sample leaves a history of at most z_history_size      *)
(* values: the old ones in their order, the oldest dropped when the        *)
(* history was full, and the absolute value of the new sample last; and a  *)
(* tick that runs to its end leaves the raw sample in previous_z.          *)
C30_HistoryRing ==
    [][ /\ (mon_pc = "m131" /\ vars' # vars) =>
             LET h    == z_history
                 h2   == z_history'
                 drop == IF Len(h) = z_history_size THEN 1 ELSE 0
             IN  /\ Len(h2) <= z_history_size
                 /\ Len(h2) = Len(h) + 1 - drop
                 /\ h2[Len(h2)] = Abs(TickSample)
                 /\ \A k \in 1..(Len(h2) - 1) : h2[k] = h[k + drop]
        /\ (mon_pc \in {"m180", "m181", "m210"} /\ mon_pc' = "m131") =>
             previous_z' = mon_z ]_vars

C30_Witness ==
    /\ mon_pc = "m131"
    /\ Len(z_history) = z_history_size
    /\ previous_z # None
    /\ previous_z < 0
    /\ z_history[z_history_size] = 0 - previous_z
    /\ z_history[1] # z_history[z_history_size]

(* C26: once stop() has returned, and until start() is called,             *)
(* emergency_mode is not set and no gateway call (activation or periodic)  *)
(* is made.                                                                *)
C26_StopIsFinal ==
    [][ usr_pc = "stopped" =>
          /\ emergency_mode' => emergency_mode
          /\ \A i \in 1..MaxLive :
                ~(thr[i] \in {"t323", "p423"} /\ thr'[i] # thr[i]) ]_vars

(* C27: the first sample a restarted sampling thread reads is a seed: it   *)
(* is no hit, the hit count is 0 after it and the history holds this       *)
(* sample alone, so that nothing of the stopped session counts towards a   *)
(* declaration.                                                            *)
C27_RestartFresh ==
    [][ (mon_pc = "started" /\ mon_pc' \notin {"started", "exited"}) =>
          /\ mon_pc' = "m131"
          /\ detection_count' = 0
          /\ z_history' = <<Abs(previous_z')>> ]_vars

(* the step passes this event type to csv_logger.log_event *)
Logs(e) == log_event' = e

C31_SustainedImpact ==
    [][ /\ (fdt_pc = "f195" /\ fdt_pc' = "f139") =>
             /\ prev_sample # NoAccel
             /\ DeltaAbove(prev_sample', prev_sample)
             /\ is_falling
             /\ opened_above
             /\ fall_start_time # None
             /\ current_time' - fall_start_time > FALL_DURATION_MS
        /\ (fdt_pc' = "f151" /\ fdt_pc # "f151") => fdt_pc \in {"f139", "f149"}
        /\ (fdt_pc' = "f139" /\ fdt_pc # "f139") => fdt_pc = "f195"
        /\ (fdt_pc \in {"f151", "f155", "f158"} /\ fdt_pc' = "f195") =>
             (~is_falling' /\ fall_start_time' = None)
      ]_vars

(* C32: a sample that is not above the threshold against the sample before *)
(* it, and arrives more than STABLE_DURATION_MS after the start of the     *)
(* open potential fall, clears it without the callbacks; and is_falling    *)
(* holds exactly when fall_start_time is set.                              *)
C32_FalseAlarmReset ==
    [][ /\ ( /\ fdt_pc = "f195"
             /\ prev_sample # NoAccel
             /\ prev_sample' # prev_sample
             /\ ~DeltaAbove(prev_sample', prev_sample)
             /\ is_falling
             /\ fall_start_time # None
             /\ current_time' - fall_start_time > STABLE_DURATION_MS )
           => (~is_falling' /\ fall_start_time' = None /\ fdt_pc' = "f195")
        /\ is_falling' <=> (fall_start_time' # None)
      ]_vars

(* C33: when log_callback or fall_callback raises on a confirmed fall, the *)
(* thread goes on inside _detect_fall: from the callback or its handler to *)
(* the next statement, then to the reset, which leaves is_falling false    *)
(* and fall_start_time None, and from there to the next sample of the      *)
(* loop.                                                                   *)
C33_CallbackIsolation ==
    [][ /\ (fdt_pc = "f139" /\ fdt_pc' # fdt_pc) => fdt_pc' \in {"f149", "f151"}
        /\ (fdt_pc = "f149" /\ fdt_pc' # fdt_pc) => fdt_pc' = "f151"
        /\ (fdt_pc = "f151" /\ fdt_pc' # fdt_pc) => fdt_pc' \in {"f155", "f158"}
        /\ (fdt_pc = "f155" /\ fdt_pc' # fdt_pc) => fdt_pc' = "f158"
        /\ (fdt_pc = "f158" /\ fdt_pc' # fdt_pc) =>
             (fdt_pc' = "f195" /\ ~is_falling' /\ fall_start_time' = None)
        /\ (fdt_pc \in {"f149", "f155"}) => (is_falling /\ fall_start_time # None)
      ]_vars

(* fall_callback has raised on a confirmed fall and the fall state is not  *)
(* reset yet                                                               *)
C33_Witness ==
    /\ fdt_pc = "f155"
    /\ is_falling
    /\ fall_start_time # None

CheckInPcs == {"c155", "c165", "c175", "c191", "c207", "c211", "c219", "c222"}

(* C35: at most one call of check_on_user is between setting               *)
(* check_in_active and its return; a call that finds check_in_active set   *)
(* returns at once, with no prompt and no alert; and check_in_active is    *)
(* false when a call that had set it returns.                              *)
C35_SingleCheckIn ==
    [][ /\ Cardinality({c \in Callers : ha_pc'[c] \in CheckInPcs}) <= 1
        /\ \A c \in Callers :
             (ha_pc[c] = "c148" /\ check_in_active /\ ha_pc'[c] # "c148") =>
                (ha_pc'[c] = "idle" /\ ha_alerts'[c] = 0)
        /\ \A c \in Callers :
             (ha_pc[c] = "c222" /\ ha_pc'[c] = "idle") => ~check_in_active'
      ]_vars

====
